---- MODULE Spec2Model ----
\* Model of src/FFmpegCapture.cpp: main() constructs a ScreenRecorder, runs
\* Initialize("output.mp4"), runs Record() when Initialize returned true, and
\* destroys the recorder.  Each action is one step of that single thread; pc is
\* the position of the thread.  The OS and FFmpeg calls are modelled by the
\* outcomes the code distinguishes (or fails to distinguish).
EXTENDS Integers, Sequences, FiniteSets, TLC

\* ---------------------------------------------------------------- constants
FPS == 30
FRAME_DELAY == 1000 \div FPS

\* ------------------------------------------------------------------- bounds
MaxFrames == 3      \* the ESC poll is forced true after this many frames
MaxDim == 2         \* GetSystemMetrics returns 0..MaxDim (0 = failure)
ShortWork == 10     \* ms taken by an iteration that meets its deadline
LongWork == 40      \* ms taken by an iteration that overruns its deadline
StartSkew == 5      \* steady-clock reading when Record() starts is 0 or this
TbFactor == 3       \* the muxer picks a stream time base of 1/FPS or 1/(TbFactor*FPS)

Resources == {"fmt_ctx", "pb", "codec_ctx", "sws_ctx", "frame"}
IterationOrder == <<"capture", "convert", "stamp", "submit", "drain", "sleep">>
LoopHandles == {"hdcScreen", "hdcMem", "hBitmap", "borderBrush", "hbmColor", "hbmMask", "pkt"}
NoPkt == [id |-> -1, pts |-> -1, path |-> {}]
InitPcs == {"init_metrics", "init_alloc_output", "init_find_encoder",
            "init_new_stream", "init_codec", "init_open_file"}
LoopPcs == {"loop_poll", "cap_begin", "cap_border", "cap_cursor",
            "cap_cursor_draw", "cap_resize",
            "cap_getdibits", "enc_convert", "enc_stamp", "enc_send",
            "enc_receive", "enc_mux", "enc_free", "pace"}
FlushPcs == {"flush_send", "flush_receive", "flush_write", "flush_free", "trailer"}
RecordPcs == {"rec_start"} \cup LoopPcs \cup FlushPcs

VARIABLES
  pc,            \* position of the main thread
  initOk,        \* return value of Initialize: "pending", "true" or "false"
  failed,        \* the initialization steps whose library call failed
  width, height, \* ScreenRecorder::width / height
  fmt_ctx, codec_ctx, sws_ctx, frame,  \* pointer members: "null", "alloc", "garbage", "freed"
  pb,            \* fmt_ctx->pb: "null", "open", "closed"
  stream,        \* ScreenRecorder::stream: "null" or "alloc"
  streamTbDen,   \* stream->time_base = 1/streamTbDen
  codecOpen,     \* whether avcodec_open2 succeeded
  captureBuffer, \* captureBuffer.size()
  pts_counter,   \* ScreenRecorder::pts_counter
  framePts,      \* frame->pts
  now, start, next_frame,  \* steady clock, its reading at Record() entry, the deadline
  encQueue,      \* frames the encoder holds and has not yet emitted
  draining,      \* the encoder has received the null (flush) frame
  pkt,           \* the packet last returned by avcodec_receive_packet
  emitted,       \* ids of the packets the encoder returned, in order
  container,     \* what was written to the muxer, in order
  handles,       \* per-iteration handles currently outstanding
  iterLog,       \* operations performed since the last ESC poll
  polls, captures, sleeps, flushes,  \* counts of those operations
  submitted,     \* frame->pts of each avcodec_send_frame(frame), in order
  created, released  \* per resource: number of creations / releases

vars == <<pc, initOk, failed, width, height, fmt_ctx, codec_ctx, sws_ctx, frame,
          pb, stream, streamTbDen, codecOpen, captureBuffer, pts_counter,
          framePts, now, start, next_frame, encQueue, draining, pkt, emitted,
          container, handles, iterLog, polls, captures, sleeps, flushes,
          submitted, created, released>>

initVars == <<initOk, failed, width, height, fmt_ctx, codec_ctx, sws_ctx, frame,
              pb, stream, streamTbDen, codecOpen, created>>
clockVars == <<now, start, next_frame>>
encVars == <<encQueue, draining, pkt, emitted, container>>
countVars == <<polls, captures, sleeps, flushes, submitted>>

Max(a, b) == IF a >= b THEN a ELSE b

\* The constructor initialises sws_ctx, codec_ctx and fmt_ctx to nullptr and
\* pts_counter to 0; captureBuffer is an empty vector.  width, height, stream
\* and frame have no initialiser: frame's value is indeterminate.
Init ==
  /\ pc = "init_metrics"
  /\ initOk = "pending"
  /\ failed = {}
  /\ width = 0 /\ height = 0
  /\ fmt_ctx = "null" /\ codec_ctx = "null" /\ sws_ctx = "null"
  /\ frame \in {"null", "garbage"}
  /\ pb = "null"
  /\ stream = "null"
  /\ streamTbDen = 0
  /\ codecOpen = FALSE
  /\ captureBuffer = 0
  /\ pts_counter = 0
  /\ framePts = -1
  /\ now = 0 /\ start = 0 /\ next_frame = 0
  /\ encQueue = {}
  /\ draining = FALSE
  /\ pkt = NoPkt
  /\ emitted = <<>>
  /\ container = <<>>
  /\ handles = {}
  /\ iterLog = <<>>
  /\ polls = 0 /\ captures = 0 /\ sleeps = 0 /\ flushes = 0
  /\ submitted = <<>>
  /\ created = [r \in Resources |-> 0]
  /\ released = [r \in Resources |-> 0]

\* ------------------------------------------------------------- Initialize
\* lines 21-22: the display size is read and never checked (0 means failure).
InitMetrics ==
  /\ pc = "init_metrics"
  /\ \E w \in 0..MaxDim, h \in 0..MaxDim :
       /\ width' = w
       /\ height' = h
       /\ failed' = IF w = 0 \/ h = 0 THEN failed \cup {"display"} ELSE failed
  /\ pc' = "init_alloc_output"
  /\ UNCHANGED <<initOk, fmt_ctx, codec_ctx, sws_ctx, frame, pb, stream,
                 streamTbDen, codecOpen, created, captureBuffer, pts_counter,
                 framePts, clockVars, encVars, handles, iterLog, countVars,
                 released>>

\* lines 25-26
InitAllocOutput ==
  /\ pc = "init_alloc_output"
  /\ \E ok \in BOOLEAN :
       IF ok
       THEN /\ fmt_ctx' = "alloc"
            /\ created' = [created EXCEPT !["fmt_ctx"] = @ + 1]
            /\ pc' = "init_find_encoder"
            /\ UNCHANGED <<initOk, failed>>
       ELSE /\ failed' = failed \cup {"format"}
            /\ initOk' = "false"
            /\ pc' = "main_if"
            /\ UNCHANGED <<fmt_ctx, created>>
  /\ UNCHANGED <<width, height, codec_ctx, sws_ctx, frame, pb, stream,
                 streamTbDen, codecOpen, captureBuffer, pts_counter, framePts,
                 clockVars, encVars, handles, iterLog, countVars, released>>

\* lines 29-30
InitFindEncoder ==
  /\ pc = "init_find_encoder"
  /\ \E ok \in BOOLEAN :
       IF ok
       THEN /\ pc' = "init_new_stream"
            /\ UNCHANGED <<initOk, failed>>
       ELSE /\ failed' = failed \cup {"encoder"}
            /\ initOk' = "false"
            /\ pc' = "main_if"
  /\ UNCHANGED <<width, height, fmt_ctx, codec_ctx, sws_ctx, frame, pb, stream,
                 streamTbDen, codecOpen, created, captureBuffer, pts_counter,
                 framePts, clockVars, encVars, handles, iterLog, countVars,
                 released>>

\* lines 33-34
InitNewStream ==
  /\ pc = "init_new_stream"
  /\ \E ok \in BOOLEAN :
       IF ok
       THEN /\ stream' = "alloc"
            /\ pc' = "init_codec"
            /\ UNCHANGED <<initOk, failed>>
       ELSE /\ failed' = failed \cup {"stream"}
            /\ initOk' = "false"
            /\ pc' = "main_if"
            /\ UNCHANGED stream
  /\ UNCHANGED <<width, height, fmt_ctx, codec_ctx, sws_ctx, frame, pb,
                 streamTbDen, codecOpen, created, captureBuffer, pts_counter,
                 framePts, clockVars, encVars, handles, iterLog, countVars,
                 released>>

\* lines 37-55: the codec context, the scaler and the frame are allocated; the
\* result of avcodec_open2 is not looked at.
InitCodec ==
  /\ pc = "init_codec"
  /\ codec_ctx' = "alloc"
  /\ sws_ctx' = "alloc"
  /\ frame' = "alloc"
  /\ created' = [created EXCEPT !["codec_ctx"] = @ + 1, !["sws_ctx"] = @ + 1,
                                !["frame"] = @ + 1]
  /\ \E ok \in BOOLEAN :
       /\ codecOpen' = ok
       /\ failed' = IF ok THEN failed ELSE failed \cup {"codec_open"}
  /\ pc' = "init_open_file"
  /\ UNCHANGED <<initOk, width, height, fmt_ctx, pb, stream, streamTbDen,
                 captureBuffer, pts_counter, framePts, clockVars, encVars,
                 handles, iterLog, countVars, released>>

\* Variant of InitOpenFile: avformat_write_header is left out.
InitOpenFile_NoHeader ==
  /\ pc = "init_open_file"
  /\ \E ok \in BOOLEAN :
       IF ok
       THEN /\ pb' = "open"
            /\ created' = [created EXCEPT !["pb"] = @ + 1]
            /\ \E den \in {FPS, TbFactor * FPS} : streamTbDen' = den
            /\ initOk' = "true"
            /\ UNCHANGED <<failed, container>>
       ELSE /\ failed' = failed \cup {"file"}
            /\ initOk' = "false"
            /\ UNCHANGED <<pb, created, container, streamTbDen>>
  /\ pc' = "main_if"
  /\ UNCHANGED <<width, height, fmt_ctx, codec_ctx, sws_ctx, frame, stream,
                 codecOpen, captureBuffer, pts_counter, framePts, clockVars,
                 encQueue, draining, pkt, emitted, handles, iterLog, countVars,
                 released>>

\* lines 58-61: avio_open, then avformat_write_header, then return true.  The
\* muxer fixes the stream time base when the header is written.
InitOpenFile ==
  /\ pc = "init_open_file"
  /\ \E ok \in BOOLEAN :
       IF ok
       THEN /\ pb' = "open"
            /\ created' = [created EXCEPT !["pb"] = @ + 1]
            /\ container' = Append(container, [kind |-> "header", id |-> -1, pts |-> -1, path |-> {}])
            /\ \E den \in {FPS, TbFactor * FPS} : streamTbDen' = den
            /\ initOk' = "true"
            /\ UNCHANGED failed
       ELSE /\ failed' = failed \cup {"file"}
            /\ initOk' = "false"
            /\ UNCHANGED <<pb, created, container, streamTbDen>>
  /\ pc' = "main_if"
  /\ UNCHANGED <<width, height, fmt_ctx, codec_ctx, sws_ctx, frame, stream,
                 codecOpen, captureBuffer, pts_counter, framePts, clockVars,
                 encQueue, draining, pkt, emitted, handles, iterLog, countVars,
                 released>>

\* lines 180-183: if (recorder.Initialize(...)) recorder.Record();
MainIf ==
  /\ pc = "main_if"
  /\ pc' = IF initOk = "true" THEN "rec_start" ELSE "dtor"
  /\ UNCHANGED <<initVars, captureBuffer, pts_counter, framePts, clockVars,
                 encVars, handles, iterLog, countVars, released>>

\* ------------------------------------------------------------------ Record
\* line 65: auto next_frame = steady_clock::now();
RecordStart ==
  /\ pc = "rec_start"
  /\ \E t \in {0, StartSkew} :
       /\ now' = now + t
       /\ start' = now + t
       /\ next_frame' = now + t
  /\ pc' = "loop_poll"
  /\ UNCHANGED <<initVars, captureBuffer, pts_counter, framePts, encVars,
                 handles, iterLog, countVars, released>>

\* Variant of LoopPoll: a do-while loop, whose first iteration runs without a
\* poll.
LoopPoll_DoWhile ==
  /\ pc = "loop_poll"
  /\ IF polls = 0 /\ captures = 0
     THEN /\ pc' = "cap_begin"
          /\ polls' = polls
     ELSE /\ \E esc \in BOOLEAN :
               /\ (captures >= MaxFrames) => esc
               /\ pc' = IF esc THEN "flush_send" ELSE "cap_begin"
          /\ polls' = polls + 1
  /\ iterLog' = <<>>
  /\ UNCHANGED <<initVars, captureBuffer, pts_counter, framePts, clockVars,
                 encVars, handles, captures, sleeps, flushes, submitted,
                 released>>

\* line 66: while (!GetAsyncKeyState(VK_ESCAPE))
LoopPoll ==
  /\ pc = "loop_poll"
  /\ \E esc \in BOOLEAN :
       /\ (captures >= MaxFrames) => esc
       /\ pc' = IF esc THEN "flush_send" ELSE "cap_begin"
  /\ polls' = polls + 1
  /\ iterLog' = <<>>
  /\ UNCHANGED <<initVars, captureBuffer, pts_counter, framePts, clockVars,
                 encVars, handles, captures, sleeps, flushes, submitted,
                 released>>

\* ------------------------------------------------------------ CaptureFrame
\* lines 95-99: GetDC, CreateCompatibleDC, CreateCompatibleBitmap, BitBlt.
\* The time the iteration's work takes is accounted for here.
CaptureBegin ==
  /\ pc = "cap_begin"
  /\ handles' = handles \cup {"hdcScreen", "hdcMem", "hBitmap"}
  /\ \E d \in {ShortWork, LongWork} : now' = now + d
  /\ pc' = "cap_border"
  /\ UNCHANGED <<initVars, captureBuffer, pts_counter, framePts, start,
                 next_frame, encVars, iterLog, countVars, released>>

\* lines 102-105: CreateSolidBrush, FrameRect, DeleteObject(borderBrush)
CaptureBorder ==
  /\ pc = "cap_border"
  /\ handles' = (handles \cup {"borderBrush"}) \ {"borderBrush"}
  /\ pc' = "cap_cursor"
  /\ UNCHANGED <<initVars, captureBuffer, pts_counter, framePts, clockVars,
                 encVars, iterLog, countVars, released>>

\* lines 132-135: when the cursor is showing and GetIconInfo succeeds, the
\* caller owns the mask bitmap and, for a colour cursor, the colour bitmap.
DrawCursor ==
  /\ pc = "cap_cursor"
  /\ \E showing \in BOOLEAN, iconOk \in BOOLEAN, colour \in BOOLEAN :
       IF showing /\ iconOk
       THEN /\ handles' = handles \cup {"hbmMask"}
                            \cup (IF colour THEN {"hbmColor"} ELSE {})
            /\ pc' = "cap_cursor_draw"
       ELSE /\ handles' = handles
            /\ pc' = "cap_resize"
  /\ UNCHANGED <<initVars, captureBuffer, pts_counter, framePts, clockVars,
                 encVars, iterLog, countVars, released>>

\* Variant of DrawCursorIcon: the mask bitmap is not deleted.
DrawCursorIcon_LeakMask ==
  /\ pc = "cap_cursor_draw"
  /\ handles' = handles \ {"hbmColor"}
  /\ pc' = "cap_resize"
  /\ UNCHANGED <<initVars, captureBuffer, pts_counter, framePts, clockVars,
                 encVars, iterLog, countVars, released>>

\* lines 136-140: DrawIconEx, DeleteObject(hbmColor), DeleteObject(hbmMask)
DrawCursorIcon ==
  /\ pc = "cap_cursor_draw"
  /\ handles' = handles \ {"hbmColor", "hbmMask"}
  /\ pc' = "cap_resize"
  /\ UNCHANGED <<initVars, captureBuffer, pts_counter, framePts, clockVars,
                 encVars, iterLog, countVars, released>>

\* Variant of CaptureResize: the size is computed in pixels, not bytes.
CaptureResize_Pixels ==
  /\ pc = "cap_resize"
  /\ captureBuffer' = IF captureBuffer < width * height
                      THEN width * height
                      ELSE captureBuffer
  /\ pc' = "cap_getdibits"
  /\ UNCHANGED <<initVars, pts_counter, framePts, clockVars, encVars, handles,
                 iterLog, countVars, released>>

\* lines 119-121
CaptureResize ==
  /\ pc = "cap_resize"
  /\ captureBuffer' = IF captureBuffer < width * height * 4
                      THEN width * height * 4
                      ELSE captureBuffer
  /\ pc' = "cap_getdibits"
  /\ UNCHANGED <<initVars, pts_counter, framePts, clockVars, encVars, handles,
                 iterLog, countVars, released>>

\* lines 123-128: GetDIBits writes width*height*4 bytes into the buffer, then
\* DeleteObject(hBitmap), DeleteDC(hdcMem), ReleaseDC(hdcScreen).
CaptureGetDIBits ==
  /\ pc = "cap_getdibits"
  /\ handles' = handles \ {"hBitmap", "hdcMem", "hdcScreen"}
  /\ captures' = captures + 1
  /\ iterLog' = Append(iterLog, "capture")
  /\ pc' = "enc_convert"
  /\ UNCHANGED <<initVars, captureBuffer, pts_counter, framePts, clockVars,
                 encVars, polls, sleeps, flushes, submitted, released>>

\* ------------------------------------------------------------- EncodeFrame
\* lines 147-151: sws_scale reads width*height*4 bytes of the buffer.
EncodeConvert ==
  /\ pc = "enc_convert"
  /\ iterLog' = Append(iterLog, "convert")
  /\ pc' = "enc_stamp"
  /\ UNCHANGED <<initVars, captureBuffer, pts_counter, framePts, clockVars,
                 encVars, handles, countVars, released>>

\* Variant of EncodeStamp: the counter is read but not advanced.
EncodeStamp_NoAdvance ==
  /\ pc = "enc_stamp"
  /\ framePts' = pts_counter
  /\ pts_counter' = pts_counter
  /\ iterLog' = Append(iterLog, "stamp")
  /\ pc' = "enc_send"
  /\ UNCHANGED <<initVars, captureBuffer, clockVars, encVars, handles,
                 countVars, released>>

\* line 153: frame->pts = pts_counter++;
EncodeStamp ==
  /\ pc = "enc_stamp"
  /\ framePts' = pts_counter
  /\ pts_counter' = pts_counter + 1
  /\ iterLog' = Append(iterLog, "stamp")
  /\ pc' = "enc_send"
  /\ UNCHANGED <<initVars, captureBuffer, clockVars, encVars, handles,
                 countVars, released>>

\* lines 156-157: avcodec_send_frame(codec_ctx, frame); av_packet_alloc().
\* An encoder that was never opened rejects the frame.
EncodeSend ==
  /\ pc = "enc_send"
  /\ encQueue' = IF codecOpen THEN encQueue \cup {framePts} ELSE encQueue
  /\ submitted' = Append(submitted, framePts)
  /\ handles' = handles \cup {"pkt"}
  /\ iterLog' = Append(iterLog, "submit")
  /\ pc' = "enc_receive"
  /\ UNCHANGED <<initVars, captureBuffer, pts_counter, framePts, clockVars,
                 draining, pkt, emitted, container, polls, captures, sleeps,
                 flushes, released>>

\* line 158: avcodec_receive_packet.  The encoder returns 0 with the packet of
\* one of the frames it holds, or EAGAIN because it is still buffering.
EncodeReceive ==
  /\ pc = "enc_receive"
  /\ \/ /\ codecOpen
        /\ \E f \in encQueue :
             /\ encQueue' = encQueue \ {f}
             /\ pkt' = [id |-> f, pts |-> f, path |-> {}]
             /\ emitted' = Append(emitted, f)
        /\ pc' = "enc_mux"
     \/ /\ pc' = "enc_free"
        /\ UNCHANGED <<encQueue, pkt, emitted>>
  /\ UNCHANGED <<initVars, captureBuffer, pts_counter, framePts, clockVars,
                 draining, container, handles, iterLog, countVars, released>>

\* av_rescale_q with AV_ROUND_NEAR_INF from 1/srcDen to 1/dstDen
RescaleTs(ts, srcDen, dstDen) == (2 * ts * dstDen + srcDen) \div (2 * srcDen)

\* lines 159-162: rescale, tag, write, unref
EncodeMux ==
  /\ pc = "enc_mux"
  /\ container' = Append(container,
                    [kind |-> "packet", id |-> pkt.id,
                     pts |-> RescaleTs(pkt.pts, FPS, streamTbDen),
                     path |-> pkt.path \cup {"rescale_ts", "stream_index"}])
  /\ pkt' = NoPkt
  /\ pc' = "enc_receive"
  /\ UNCHANGED <<initVars, captureBuffer, pts_counter, framePts, clockVars,
                 encQueue, draining, emitted, handles, iterLog, countVars,
                 released>>

\* line 164: av_packet_free(&pkt)
EncodeFree ==
  /\ pc = "enc_free"
  /\ handles' = handles \ {"pkt"}
  /\ iterLog' = Append(iterLog, "drain")
  /\ pc' = "pace"
  /\ UNCHANGED <<initVars, captureBuffer, pts_counter, framePts, clockVars,
                 encVars, countVars, released>>

\* Variant of Pace: the deadline is recomputed from the current time.
Pace_FromNow ==
  /\ pc = "pace"
  /\ next_frame' = now + FRAME_DELAY
  /\ now' = now + FRAME_DELAY
  /\ sleeps' = sleeps + 1
  /\ iterLog' = Append(iterLog, "sleep")
  /\ pc' = "loop_poll"
  /\ UNCHANGED <<initVars, captureBuffer, pts_counter, framePts, start,
                 encVars, handles, polls, captures, flushes, submitted,
                 released>>

\* lines 70-71: next_frame += FRAME_DELAY; sleep_until(next_frame);
Pace ==
  /\ pc = "pace"
  /\ next_frame' = next_frame + FRAME_DELAY
  /\ now' = Max(now, next_frame + FRAME_DELAY)
  /\ sleeps' = sleeps + 1
  /\ iterLog' = Append(iterLog, "sleep")
  /\ pc' = "loop_poll"
  /\ UNCHANGED <<initVars, captureBuffer, pts_counter, framePts, start,
                 encVars, handles, polls, captures, flushes, submitted,
                 released>>

\* ------------------------------------------------------------------- flush
\* lines 75-76: av_packet_alloc(); avcodec_send_frame(codec_ctx, nullptr);
FlushSend ==
  /\ pc = "flush_send"
  /\ handles' = handles \cup {"pkt"}
  /\ draining' = TRUE
  /\ flushes' = flushes + 1
  /\ pc' = "flush_receive"
  /\ UNCHANGED <<initVars, captureBuffer, pts_counter, framePts, clockVars,
                 encQueue, pkt, emitted, container, iterLog, polls, captures,
                 sleeps, submitted, released>>

\* line 77: a draining encoder returns every frame it holds, then EOF.
FlushReceive ==
  /\ pc = "flush_receive"
  /\ IF codecOpen /\ encQueue # {}
     THEN /\ \E f \in encQueue :
               /\ encQueue' = encQueue \ {f}
               /\ pkt' = [id |-> f, pts |-> f, path |-> {}]
               /\ emitted' = Append(emitted, f)
          /\ pc' = "flush_write"
     ELSE /\ pc' = "flush_free"
          /\ UNCHANGED <<encQueue, pkt, emitted>>
  /\ UNCHANGED <<initVars, captureBuffer, pts_counter, framePts, clockVars,
                 draining, container, handles, iterLog, countVars, released>>

\* Variant of FlushWrite: the drained packet is unreferenced without being
\* written.
FlushWrite_Dropped ==
  /\ pc = "flush_write"
  /\ pkt' = NoPkt
  /\ pc' = "flush_receive"
  /\ UNCHANGED <<initVars, captureBuffer, pts_counter, framePts, clockVars,
                 encQueue, draining, emitted, container, handles, iterLog,
                 countVars, released>>

\* lines 78-79: av_interleaved_write_frame; av_packet_unref.  No rescale and
\* no stream index assignment here.
FlushWrite ==
  /\ pc = "flush_write"
  /\ container' = Append(container,
                    [kind |-> "packet", id |-> pkt.id, pts |-> pkt.pts,
                     path |-> pkt.path])
  /\ pkt' = NoPkt
  /\ pc' = "flush_receive"
  /\ UNCHANGED <<initVars, captureBuffer, pts_counter, framePts, clockVars,
                 encQueue, draining, emitted, handles, iterLog, countVars,
                 released>>

\* line 81: av_packet_free(&pkt)
FlushFree ==
  /\ pc = "flush_free"
  /\ handles' = handles \ {"pkt"}
  /\ pc' = "trailer"
  /\ UNCHANGED <<initVars, captureBuffer, pts_counter, framePts, clockVars,
                 encVars, iterLog, countVars, released>>

\* line 83: av_write_trailer(fmt_ctx)
WriteTrailer ==
  /\ pc = "trailer"
  /\ container' = Append(container, [kind |-> "trailer", id |-> -1, pts |-> -1, path |-> {}])
  /\ pc' = "dtor"
  /\ UNCHANGED <<initVars, captureBuffer, pts_counter, framePts, clockVars,
                 encQueue, draining, pkt, emitted, handles, iterLog, countVars,
                 released>>

\* -------------------------------------------------------------- destructor
\* lines 86-91: each of the four pointers is freed when it is not null.  An
\* indeterminate frame pointer that is not null is passed to av_frame_free.
\* fmt_ctx->pb is not closed by avformat_free_context.
Destructor ==
  /\ pc = "dtor"
  /\ released' = [r \in Resources |->
                    CASE r = "codec_ctx" -> released[r] + (IF codec_ctx # "null" THEN 1 ELSE 0)
                      [] r = "fmt_ctx"   -> released[r] + (IF fmt_ctx # "null" THEN 1 ELSE 0)
                      [] r = "sws_ctx"   -> released[r] + (IF sws_ctx # "null" THEN 1 ELSE 0)
                      [] r = "frame"     -> released[r] + (IF frame # "null" THEN 1 ELSE 0)
                      [] OTHER           -> released[r]]
  /\ codec_ctx' = IF codec_ctx # "null" THEN "freed" ELSE codec_ctx
  /\ fmt_ctx' = IF fmt_ctx # "null" THEN "freed" ELSE fmt_ctx
  /\ sws_ctx' = IF sws_ctx # "null" THEN "freed" ELSE sws_ctx
  /\ frame' = IF frame # "null" THEN "freed" ELSE frame
  /\ pc' = "exit"
  /\ UNCHANGED <<initOk, failed, width, height, pb, stream, streamTbDen,
                 codecOpen, created, captureBuffer, pts_counter, framePts,
                 clockVars, encVars, handles, iterLog, countVars>>

Next ==
  \/ InitMetrics \/ InitAllocOutput \/ InitFindEncoder \/ InitNewStream
  \/ InitCodec \/ InitOpenFile \/ MainIf
  \/ RecordStart \/ LoopPoll
  \/ CaptureBegin \/ CaptureBorder \/ DrawCursor \/ DrawCursorIcon
  \/ CaptureResize
  \/ CaptureGetDIBits
  \/ EncodeConvert \/ EncodeStamp \/ EncodeSend \/ EncodeReceive \/ EncodeMux
  \/ EncodeFree \/ Pace
  \/ FlushSend \/ FlushReceive \/ FlushWrite \/ FlushFree \/ WriteTrailer
  \/ Destructor

Spec == Init /\ [][Next]_vars

\* ============================================================== properties
AfterLoopPcs == FlushPcs \cup {"dtor", "exit"}
Packets == SelectSeq(container, LAMBDA e : e.kind = "packet")
PacketIds == [i \in 1..Len(Packets) |-> Packets[i].id]
Count(kind) == Cardinality({i \in 1..Len(container) : container[i].kind = kind})
IsPrefix(s, t) == Len(s) <= Len(t) /\ \A i \in 1..Len(s) : s[i] = t[i]

\* C1: the timestamps of the frames submitted to the encoder are 0, 1, ...,
\* N-1 in submission order, N being the number of captured frames, whatever the
\* clock did; the counter equals the number of frames stamped so far.
C1_PtsSequence ==
  /\ \A i \in 1..Len(submitted) : submitted[i] = i - 1
  /\ pts_counter \in {Len(submitted), Len(submitted) + 1}
  /\ (pc \in AfterLoopPcs /\ initOk = "true") =>
       (Len(submitted) = captures /\ pts_counter = captures)

C1_Witness ==
  pc = "exit" /\ failed = {} /\ Len(submitted) >= 3 /\ now > next_frame

\* C2: every packet in the container, the ones drained after the flush signal
\* included, was rescaled from the encoder time base to the stream time base
\* and given the stream's index before it was appended.
C2_FlushSamePath ==
  \A i \in 1..Len(container) :
    container[i].kind = "packet" =>
      /\ container[i].path = {"rescale_ts", "stream_index"}
      /\ container[i].pts = RescaleTs(container[i].id, FPS, streamTbDen)

\* C3: when an initialization step has failed (display size, encoder lookup,
\* codec open, output file), Initialize does not return true, Record() is not
\* entered and no frame is captured or submitted.
C3_InitFailureAborts ==
  failed # {} =>
    /\ initOk # "true"
    /\ pc \notin RecordPcs
    /\ captures = 0
    /\ submitted = <<>>

\* C4: the deadline after n pacing sleeps is start + n * FRAME_DELAY, whatever
\* the iterations took, and the clock has reached the deadline when the next
\* poll happens.
C4_DeadlineAnchored ==
  /\ next_frame = start + sleeps * FRAME_DELAY
  /\ (pc = "loop_poll") => now >= next_frame

C4_Witness ==
  pc = "loop_poll" /\ failed = {} /\ sleeps >= 2 /\ now > next_frame

\* C5: the packets in the container are the packets the encoder returned, each
\* once and in the order it returned them; the only packet that can be missing
\* is the one currently held between receive and write.
C5_NoLossNoDup ==
  /\ IsPrefix(PacketIds, emitted)
  /\ Len(PacketIds) = Len(emitted) - (IF pkt = NoPkt THEN 0 ELSE 1)
  /\ (pc \in {"trailer", "dtor", "exit"}) => PacketIds = emitted

C5_Witness ==
  /\ pc = "exit"
  /\ failed = {}
  /\ Len(emitted) >= 3
  /\ \E i \in 1..Len(Packets) : Packets[i].path = {}
  /\ \E i \in 1..Len(Packets) : Packets[i].path # {}

\* C6: once Initialize has returned true the container starts with exactly one
\* header; the flush happens at most once and only after the loop; the trailer
\* is written at most once, is the last thing written, and both have happened
\* exactly once when Record() has returned, also with zero captured frames.
C6_HeaderFlushTrailerOnce ==
  (initOk = "true") =>
    /\ Count("header") = 1
    /\ container[1].kind = "header"
    /\ flushes <= 1
    /\ (flushes = 1) <=> (pc \in AfterLoopPcs \ {"flush_send"})
    /\ (Count("trailer") = 1) <=> (pc \in {"dtor", "exit"})
    /\ Count("trailer") <= 1
    /\ (Count("trailer") = 1) => container[Len(container)].kind = "trailer"

C6_Witness ==
  pc = "exit" /\ failed = {} /\ initOk = "true" /\ captures = 0 /\ Len(container) = 2

\* C7: at program exit every resource was created at most once and released
\* exactly as often as it was created.
C7_ReleasedExactlyOnce ==
  (pc = "exit") =>
    \A r \in Resources : created[r] <= 1 /\ released[r] = created[r]

\* C8: the capture buffer holds at least width*height*4 bytes when GetDIBits
\* writes it and when sws_scale reads it; it never shrinks, and it changes size
\* only when it was smaller than width*height*4.
C8_BufferLargeEnough ==
  /\ [](pc \in {"cap_getdibits", "enc_convert"} =>
          captureBuffer >= width * height * 4)
  /\ [][/\ captureBuffer' >= captureBuffer
        /\ (captureBuffer' # captureBuffer) =>
             captureBuffer < width * height * 4]_vars

C8_Witness ==
  pc = "enc_convert" /\ failed = {} /\ captures >= 2 /\ captureBuffer >= 16

\* C9: one poll precedes each iteration; an iteration performs capture,
\* convert, stamp, submit, drain and sleep in this order, once each; after the
\* poll that returned true nothing more is captured or submitted, and as many
\* frames were submitted as were captured.
C9_IterationOrder ==
  /\ IsPrefix(iterLog, IterationOrder)
  /\ (pc = "loop_poll" /\ polls > 0) => iterLog = IterationOrder
  /\ (pc = "loop_poll") =>
       (polls = captures /\ sleeps = captures /\ Len(submitted) = captures)
  /\ (pc \in LoopPcs \ {"loop_poll"}) => polls = sleeps + 1
  /\ (pc \in AfterLoopPcs /\ initOk = "true") =>
       /\ polls = captures + 1
       /\ sleeps = captures
       /\ Len(submitted) = captures
       /\ iterLog = <<>>

C9_Witness ==
  pc = "flush_send" /\ failed = {} /\ captures >= 2 /\ polls = captures + 1

\* C10: no per-iteration handle is outstanding at an iteration boundary; after
\* DrawCursor only the three capture handles are held, after CaptureFrame
\* none, and after EncodeFrame none.
C10_NoHandleLeak ==
  /\ handles \subseteq LoopHandles
  /\ (pc \in {"loop_poll", "pace", "flush_send", "trailer", "dtor", "exit"}) =>
       handles = {}
  /\ (pc \in {"cap_resize", "cap_getdibits"}) =>
       handles = {"hdcScreen", "hdcMem", "hBitmap"}
  /\ (pc \in {"enc_convert", "enc_stamp", "enc_send"}) => handles = {}

C10_Witness ==
  pc = "loop_poll" /\ failed = {} /\ captures >= 2 /\ handles = {}

====
